---- MODULE Spec2Model ----
(***************************************************************************)
(* A model of the tweet sentiment classifier: the DSString value type      *)
(* (src/src/DSString.cpp) as a machine over objects and character arrays,  *)
(* and the text pipeline built on it (src/src/SentimentClassifier.cpp):    *)
(* CSV parsing, tokenizing, training, prediction and evaluation, and the   *)
(* driver that runs the three stages (src/src/main.cpp).                   *)
(*                                                                         *)
(* A char is kept as its byte 0..255; CharVal gives the int it promotes    *)
(* to, which depends on whether the build's plain char is signed.          *)
(***************************************************************************)
EXTENDS Integers, Sequences, FiniteSets, TLC

VARIABLES
    charSigned,             \* whether plain char is signed in this build
    heap,                   \* address -> character array, or Freed
    objs,                   \* DSString object -> [data (address), length]
    last,                   \* the DSString operation that ran last
    crashed,                \* the process was terminated abnormally
    input,                  \* the DSString handed to the text function
    output,                 \* the vector the text function returned
    stage,                  \* which text function has run
    trainPc,                \* where train() stands
    isFirstLine,            \* the running stage has its header line still to skip
    wordSentimentCounts,    \* the classifier's word map
    totalPositiveTweets,
    totalNegativeTweets,
    processed,              \* history: <<sentiment, text>> of every record train() processed
    predictPc,              \* where predict() stands
    predictions,            \* the classifier's map from tweet id to predicted sentiment
    outFile,                \* the lines written to the predictions output
    tested,                 \* history: id, text and score of every record predict() processed
    evalPc,                 \* where evaluatePredictions() stands
    correctPredictions,
    totalPredictions,
    misclassifications,     \* the vector of (predicted, actual, tweetID)
    accFile,                \* the lines written to the accuracy output
    warned,                 \* the warning of evaluatePredictions() went to std::cerr
    evaluated,              \* history: label and id of every record evaluatePredictions() processed
    skipped,                \* history: the running stage, once it skipped a line with too few fields
    exitStatus              \* what main returned, -1 while it runs

vars == <<charSigned, heap, objs, last, crashed, input, output, stage, trainPc,
          isFirstLine, wordSentimentCounts, totalPositiveTweets,
          totalNegativeTweets, processed, predictPc, predictions, outFile,
          tested, evalPc, correctPredictions, totalPredictions,
          misclassifications, accFile, warned, evaluated, skipped, exitStatus>>

strVars == <<heap, objs, last, crashed>>
textVars == <<input, output, stage>>
trainVars == <<trainPc, isFirstLine, wordSentimentCounts, totalPositiveTweets,
               totalNegativeTweets, processed>>
predictVars == <<predictPc, predictions, outFile, tested>>
evalVars == <<evalPc, correctPredictions, totalPredictions, misclassifications,
              accFile, warned, evaluated>>
runVars == <<predictVars, evalVars, skipped, exitStatus>>

-----------------------------------------------------------------------------
(* Bounds of the model *)

\* the most characters the two named DSString objects hold together
MaxChars == 3
\* the longest raw line handed to the text functions
MaxLine == 4
\* the most records train() reads after the header
MaxRecords == 2

-----------------------------------------------------------------------------
(* Characters *)

NUL == 0
UpperA == 65
UpperZ == 90
CaseOffset == 32
Comma == 44
Quote == 34
Four == 52
IntMax == 2147483647
\* what an array from new char[n] holds before it is written: no char value
Uninit == 256

\* the int a char promotes to
CharVal(b) == IF charSigned /\ b >= 128 THEN b - 256 ELSE b

\* the char an int converts to
ToChar(v) == v % 256

\* a null char pointer
nullptr == << >>

\* new char[n]
NewCharArray(n) == [i \in 1..n |-> Uninit]

-----------------------------------------------------------------------------
(* The helpers of DSString.cpp, over character arrays (1-based here) *)

stringLength(str) ==
    IF str = nullptr THEN 0
    ELSE (CHOOSE i \in 1..Len(str) :
              str[i] = NUL /\ \A j \in 1..(i - 1) : str[j] # NUL) - 1

stringCopy(destination, source, length) ==
    IF destination = nullptr \/ source = nullptr THEN destination
    ELSE [i \in 1..Len(destination) |->
              IF i <= length THEN source[i]
              ELSE IF i = length + 1 THEN NUL
              ELSE destination[i]]

RECURSIVE stringCompareFrom(_, _, _)
stringCompareFrom(str1, str2, i) ==
    IF str1[i] # NUL /\ str2[i] # NUL
    THEN IF str1[i] # str2[i]
         THEN CharVal(str1[i]) - CharVal(str2[i])
         ELSE stringCompareFrom(str1, str2, i + 1)
    ELSE CharVal(str1[i]) - CharVal(str2[i])

stringCompare(str1, str2) ==
    IF str1 = nullptr /\ str2 = nullptr THEN 0
    ELSE IF str1 = nullptr THEN -1
    ELSE IF str2 = nullptr THEN 1
    ELSE stringCompareFrom(str1, str2, 1)

-----------------------------------------------------------------------------
(* DSString values: [data |-> the character array, length |-> int] *)

DSStringDefault == [data |-> <<NUL>>, length |-> 0]

DSStringFromC(str) ==
    IF str = nullptr THEN [data |-> <<NUL>>, length |-> 0]
    ELSE LET length == stringLength(str)
         IN  [data |-> stringCopy(NewCharArray(length + 1), str, length),
              length |-> length]

DSStringCopy(other) ==
    [data |-> stringCopy(NewCharArray(other.length + 1), other.data, other.length),
     length |-> other.length]

operatorPlusSwapped(this, other) ==
    LET newLength == this.length + other.length
        newData == stringCopy(NewCharArray(newLength + 1), other.data, other.length)
    IN  [data |-> [i \in 1..(newLength + 1) |->
                      IF other.length < i /\ i <= newLength
                      THEN this.data[i - other.length]
                      ELSE IF i = newLength + 1 THEN NUL
                      ELSE newData[i]],
         length |-> newLength]

operatorPlus(this, other) ==
    LET newLength == this.length + other.length
        newData == stringCopy(NewCharArray(newLength + 1), this.data, this.length)
    IN  [data |-> [i \in 1..(newLength + 1) |->
                      IF this.length < i /\ i <= newLength
                      THEN other.data[i - this.length]
                      ELSE IF i = newLength + 1 THEN NUL
                      ELSE newData[i]],
         length |-> newLength]

operatorEq(this, other) ==
    /\ this.length = other.length
    /\ \A i \in 1..this.length : this.data[i] = other.data[i]

operatorLt(this, other) == stringCompare(this.data, other.data) < 0

operatorGt(this, other) == stringCompare(this.data, other.data) > 0

\* abnormal termination in place of a returned value
Crash == [data |-> nullptr, length |-> -1]

\* lines 246-267: the copy of numChars characters from start
substringCopy(this, start, numChars) ==
    [data |-> [i \in 1..(numChars + 1) |->
                  IF i <= numChars THEN this.data[start + i] ELSE NUL],
     length |-> numChars]

\* Every outcome of substring(start, numChars).  When start + numChars does
\* not fit an int the addition is undefined: a build that wraps it sees a
\* negative sum, keeps numChars and fails in new char[numChars + 1] or in the
\* copy past the array; a build that folds the test to
\* numChars > length - start truncates as for any overlong count.
substring(this, start, numChars) ==
    IF start < 0 \/ start >= this.length \/ numChars <= 0
    THEN {DSStringDefault}
    ELSE IF numChars > IntMax - start
    THEN {Crash, substringCopy(this, start, this.length - start)}
    ELSE {substringCopy(this, start,
                        IF start + numChars > this.length
                        THEN this.length - start ELSE numChars)}

toLowerCaseWideRange(this) ==
    [data |-> [i \in 1..(this.length + 1) |->
                  IF i > this.length THEN NUL
                  ELSE IF CharVal(this.data[i]) >= UpperA
                          /\ CharVal(this.data[i]) <= UpperZ + CaseOffset
                       THEN ToChar(CharVal(this.data[i]) + CaseOffset)
                       ELSE this.data[i]],
     length |-> this.length]

toLowerCase(this) ==
    [data |-> [i \in 1..(this.length + 1) |->
                  IF i > this.length THEN NUL
                  ELSE IF CharVal(this.data[i]) >= UpperA
                          /\ CharVal(this.data[i]) <= UpperZ
                       THEN ToChar(CharVal(this.data[i]) + CaseOffset)
                       ELSE this.data[i]],
     length |-> this.length]

\* the bytes a DSString holds: what operator<< prints
Bytes(s) == [i \in 1..s.length |-> s.data[i]]

-----------------------------------------------------------------------------
(* The DSString machine: two named objects and the temporary an expression  *)
(* returns.  An address is named after the object whose constructor or      *)
(* operator allocated the array.                                            *)

Slots == {"a", "b"}
Temp == "t"
Names == Slots \cup {Temp}
null == "null"
\* a deleted array
Freed == << >>
\* an object outside its lifetime
NoObject == [data |-> null, length |-> 0]

\* the bytes a C-string literal and operator[] may hold here
StrBytes == {UpperA, UpperA + CaseOffset, 200}
WriteBytes == StrBytes \cup {NUL}
\* the char arrays handed to DSString(const char*): any bytes, then a terminator
RECURSIVE SeqsUpTo(_, _)
SeqsUpTo(S, n) ==
    IF n = 0 THEN {<< >>}
    ELSE LET shorter == SeqsUpTo(S, n - 1)
         IN  shorter \cup {Append(q, x) : q \in shorter, x \in S}
CStrings == {q \o <<NUL>> : q \in SeqsUpTo(WriteBytes, MaxChars)}
\* the ints handed to substring: negative, zero, within, past the end, the largest
IntSamples == {-1, 0, 1, 2, IntMax}
\* the ints handed to substring where the two objects run together
SmallInts == {0, 1}

live(o) == objs[o].data # null

\* whether object d may take n characters within the bound
Fits(d, n) ==
    LET rest == CHOOSE o \in Slots : o # d
    IN  n + (IF live(rest) THEN objs[rest].length ELSE 0) <= MaxChars

\* the value of object o: its array and its length
Deref(o) == [data |-> heap[objs[o].data], length |-> objs[o].length]
DerefNext(o) == [data |-> heap'[objs'[o].data], length |-> objs'[o].length]

Op(op, x, y, i, c) == [op |-> op, x |-> x, y |-> y, i |-> i, c |-> c]

\* object o takes the array its own member function allocated
Store(o, v) ==
    /\ objs' = [objs EXCEPT ![o] = [data |-> o, length |-> v.length]]
    /\ heap' = [heap EXCEPT ![o] = v.data]

Running == ~crashed /\ stage = "string"

DefaultConstruct(o) ==
    /\ Running /\ ~live(Temp) /\ ~live(o)
    /\ Store(o, DSStringDefault)
    /\ last' = Op("default", o, o, 0, 0)
    /\ UNCHANGED <<charSigned, crashed, textVars, trainVars, runVars>>

Construct(o, str) ==
    /\ Running /\ ~live(Temp) /\ ~live(o)
    /\ Fits(o, stringLength(str))
    /\ Store(o, DSStringFromC(str))
    /\ last' = Op("cstr", o, o, 0, 0)
    /\ UNCHANGED <<charSigned, crashed, textVars, trainVars, runVars>>

\* a copy that takes the other object's array instead of duplicating it
ShallowCopy(d, s) ==
    /\ objs' = [objs EXCEPT ![d] = objs[s]]
    /\ heap' = heap

\* DSString(const DSString&): a new array, filled by stringCopy
CopyInto(d, s) == Store(d, DSStringCopy(Deref(s)))

CopyConstruct(d, s) ==
    /\ Running /\ ~live(Temp) /\ ~live(d) /\ live(s) /\ d # s
    /\ Fits(d, objs[s].length)
    /\ CopyInto(d, s)
    /\ last' = Op("copy", d, s, 0, 0)
    /\ UNCHANGED <<charSigned, crashed, textVars, trainVars, runVars>>

\* operator= past the self-assignment test: delete[] data, then the copy
AssignInto(d, s) ==
    LET freed == [heap EXCEPT ![objs[d].data] = Freed]
        other == [data |-> freed[objs[s].data], length |-> objs[s].length]
        copy == DSStringCopy(other)
    IN  /\ objs' = [objs EXCEPT ![d] = [data |-> d, length |-> copy.length]]
        /\ heap' = [freed EXCEPT ![d] = copy.data]

Assign(d, s) ==
    /\ Running /\ ~live(Temp) /\ live(d) /\ live(s)
    /\ Fits(d, objs[s].length)
    /\ IF d = s THEN UNCHANGED <<objs, heap>> ELSE AssignInto(d, s)
    /\ last' = Op("assign", d, s, 0, 0)
    /\ UNCHANGED <<charSigned, crashed, textVars, trainVars, runVars>>

\* ~DSString
Release(o) ==
    /\ heap' = [heap EXCEPT ![objs[o].data] = Freed]
    /\ objs' = [objs EXCEPT ![o] = NoObject]

Destroy(o) ==
    /\ Running /\ ~live(Temp) /\ live(o)
    /\ Release(o)
    /\ last' = Op("destroy", o, o, 0, 0)
    /\ UNCHANGED <<charSigned, crashed, textVars, trainVars, runVars>>

\* s[index] = c for an index below size()
Write(o, index, c) ==
    /\ Running /\ ~live(Temp) /\ live(o)
    /\ 0 <= index /\ index < objs[o].length
    /\ heap' = [heap EXCEPT ![objs[o].data][index + 1] = c]
    /\ last' = Op("write", o, o, 0, 0)
    /\ UNCHANGED <<objs, charSigned, crashed, textVars, trainVars, runVars>>

\* x + y, the result held by the temporary
Plus(x, y) ==
    /\ Running /\ ~live(Temp) /\ live(x) /\ live(y)
    /\ objs[x].length + objs[y].length <= MaxChars
    /\ Store(Temp, operatorPlus(Deref(x), Deref(y)))
    /\ last' = Op("plus", x, y, 0, 0)
    /\ UNCHANGED <<charSigned, crashed, textVars, trainVars, runVars>>

\* x.substring(start, numChars): the temporary, or the process ends
Substring(x, start, numChars) ==
    /\ Running /\ ~live(Temp) /\ live(x)
    /\ \E out \in substring(Deref(x), start, numChars) :
          IF out = Crash
          THEN crashed' = TRUE /\ UNCHANGED <<objs, heap>>
          ELSE crashed' = FALSE /\ Store(Temp, out)
    /\ last' = Op("substring", x, x, start, numChars)
    /\ UNCHANGED <<charSigned, textVars, trainVars, runVars>>

\* x.toLowerCase(), the result held by the temporary
ToLowerCase(x) ==
    /\ Running /\ ~live(Temp) /\ live(x)
    /\ Store(Temp, toLowerCase(Deref(x)))
    /\ last' = Op("lower", x, x, 0, 0)
    /\ UNCHANGED <<charSigned, crashed, textVars, trainVars, runVars>>

\* d = <expression>: operator= from the temporary, which then ends
AssignTemp(d) ==
    /\ Running /\ live(Temp) /\ live(d)
    /\ Fits(d, objs[Temp].length)
    /\ LET freed == [heap EXCEPT ![objs[d].data] = Freed]
           copy == DSStringCopy([data |-> freed[objs[Temp].data],
                                 length |-> objs[Temp].length])
       IN  /\ objs' = [objs EXCEPT ![d] = [data |-> d, length |-> copy.length],
                                   ![Temp] = NoObject]
           /\ heap' = [freed EXCEPT ![d] = copy.data, ![objs[Temp].data] = Freed]
    /\ last' = Op("assignTemp", d, Temp, 0, 0)
    /\ UNCHANGED <<charSigned, crashed, textVars, trainVars, runVars>>

\* DSString d = <expression>: d copied from the temporary, which then ends
InitFromTemp(d) ==
    /\ Running /\ live(Temp) /\ ~live(d)
    /\ Fits(d, objs[Temp].length)
    /\ LET copy == DSStringCopy(Deref(Temp))
       IN  /\ objs' = [objs EXCEPT ![d] = [data |-> d, length |-> copy.length],
                                   ![Temp] = NoObject]
           /\ heap' = [heap EXCEPT ![d] = copy.data, ![objs[Temp].data] = Freed]
    /\ last' = Op("initTemp", d, Temp, 0, 0)
    /\ UNCHANGED <<charSigned, crashed, textVars, trainVars, runVars>>

\* the full expression ends with its result unused
DropTemp ==
    /\ Running /\ live(Temp)
    /\ Release(Temp)
    /\ last' = Op("dropTemp", Temp, Temp, 0, 0)
    /\ UNCHANGED <<charSigned, crashed, textVars, trainVars, runVars>>

\* values the machines outside their own specification hold
IdleString ==
    /\ heap = [n \in Names |-> Freed]
    /\ objs = [n \in Names |-> NoObject]
    /\ last = Op("none", null, null, 0, 0)
    /\ crashed = FALSE
IdleText ==
    /\ input = DSStringDefault
    /\ output = << >>
IdleTrain ==
    /\ trainPc = "closed"
    /\ isFirstLine = TRUE
    /\ wordSentimentCounts = {}
    /\ totalPositiveTweets = 0
    /\ totalNegativeTweets = 0
    /\ processed = << >>
IdleRun ==
    /\ predictPc = "closed"
    /\ predictions = {}
    /\ outFile = << >>
    /\ tested = << >>
    /\ evalPc = "closed"
    /\ correctPredictions = 0
    /\ totalPredictions = 0
    /\ misclassifications = << >>
    /\ accFile = << >>
    /\ warned = FALSE
    /\ evaluated = << >>
    /\ skipped = "none"
    /\ exitStatus = -1

InitString ==
    /\ charSigned \in BOOLEAN
    /\ stage = "string"
    /\ IdleString /\ IdleText /\ IdleTrain /\ IdleRun

NextString ==
    \/ \E o \in Slots : DefaultConstruct(o)
    \/ \E o \in Slots, str \in CStrings \cup {nullptr} : Construct(o, str)
    \/ \E d \in Slots, s \in Slots : CopyConstruct(d, s)
    \/ \E d \in Slots, s \in Slots : Assign(d, s)
    \/ \E o \in Slots : Destroy(o)
    \/ \E o \in Slots, index \in 0..(MaxChars - 1), c \in WriteBytes : Write(o, index, c)
    \/ \E x \in Slots, y \in Slots : Plus(x, y)
    \/ \E x \in Slots, start \in SmallInts, numChars \in SmallInts :
          Substring(x, start, numChars)
    \/ \E x \in Slots : ToLowerCase(x)
    \/ \E d \in Slots : AssignTemp(d)
    \/ \E d \in Slots : InitFromTemp(d)
    \/ DropTemp

SpecString == InitString /\ [][NextString]_vars

\* one object and substring over every sampled pair of ints
NextSubstring ==
    \/ \E str \in CStrings : Construct("a", str)
    \/ \E index \in 0..(MaxChars - 1), c \in WriteBytes : Write("a", index, c)
    \/ \E start \in IntSamples, numChars \in IntSamples :
          Substring("a", start, numChars)
    \/ DropTemp
    \/ Destroy("a")

SpecSubstring == InitString /\ [][NextSubstring]_vars

-----------------------------------------------------------------------------
(* Properties of DSString *)

liveNext(o) == objs'[o].data # null

\* o holds a terminator byte below size()
InnerNul(o) == \E i \in 1..objs[o].length : heap[objs[o].data][i] = NUL

\* bytes compared as unsigned values, position by position
RECURSIVE LexLess(_, _)
LexLess(p, q) ==
    IF q = << >> THEN FALSE
    ELSE IF p = << >> THEN TRUE
    ELSE IF Head(p) # Head(q) THEN Head(p) < Head(q)
    ELSE LexLess(Tail(p), Tail(q))

IsProperPrefix(p, q) == Len(p) < Len(q) /\ SubSeq(q, 1, Len(p)) = p

\* C1: a copy made by the copy constructor or by operator= compares equal to
\* its source and has its size, the source is as it was (so s = s leaves s
\* unchanged), and a byte written through operator[] at an in-range index of
\* one object leaves every byte and the size of every other object unchanged.
C1_DeepCopy ==
    [][ /\ last'.op \in {"copy", "assign"} =>
              /\ operatorEq(DerefNext(last'.x), DerefNext(last'.y))
              /\ DerefNext(last'.x).length = DerefNext(last'.y).length
              /\ DerefNext(last'.y) = Deref(last'.y)
        /\ last'.op = "write" =>
              \A p \in Slots \ {last'.x} :
                  live(p) => liveNext(p) /\ DerefNext(p) = Deref(p)
      ]_vars

\* a source and its copy after one of them was written: they differ in one byte
C1_Witness ==
    /\ last.op = "write"
    /\ live("a") /\ live("b")
    /\ objs["a"].data # objs["b"].data
    /\ objs["a"].length = objs["b"].length
    /\ Cardinality({i \in 1..objs["a"].length :
                       Deref("a").data[i] # Deref("b").data[i]}) = 1

\* C2: for all DSString values the interface builds, exactly one of a == b,
\* a < b, a > b holds.
C2_Trichotomy ==
    \A x \in Names, y \in Names :
        live(x) /\ live(y) =>
            LET eq == operatorEq(Deref(x), Deref(y))
                lt == operatorLt(Deref(x), Deref(y))
                gt == operatorGt(Deref(x), Deref(y))
            IN  /\ eq \/ lt \/ gt
                /\ ~(eq /\ lt) /\ ~(eq /\ gt) /\ ~(lt /\ gt)

\* C3: operator< and operator> order DSString values by byte-wise
\* lexicographic comparison, and a proper prefix sorts before the longer
\* string whatever byte follows the prefix.
C3_LexicographicOrder ==
    \A x \in Names, y \in Names :
        live(x) /\ live(y) =>
            LET p == Bytes(Deref(x))
                q == Bytes(Deref(y))
            IN  /\ operatorLt(Deref(x), Deref(y)) <=> LexLess(p, q)
                /\ operatorGt(Deref(x), Deref(y)) <=> LexLess(q, p)
                /\ IsProperPrefix(p, q) =>
                       /\ operatorLt(Deref(x), Deref(y))
                       /\ ~operatorLt(Deref(y), Deref(x))

\* the bytes substring(start, count) is to return
SubstringBytes(bytes, start, count) ==
    IF start < 0 \/ start >= Len(bytes) \/ count <= 0 THEN << >>
    ELSE LET end == IF count > Len(bytes) - start THEN Len(bytes)
                    ELSE start + count
         IN  [i \in 1..(end - start) |-> bytes[start + i]]

\* C4: substring(start, count) returns a result without error for every pair
\* of ints: the empty string if start < 0, start >= size() or count <= 0,
\* else the bytes at start .. min(start + count, size()) - 1; the receiver is
\* unchanged.
C4_SubstringTotal ==
    [][ last'.op = "substring" =>
            /\ ~crashed'
            /\ liveNext(Temp)
            /\ Bytes(DerefNext(Temp)) =
                   SubstringBytes(Bytes(Deref(last'.x)), last'.i, last'.c)
            /\ DerefNext(last'.x) = Deref(last'.x)
      ]_vars

\* C5: a + b has size a.size() + b.size(), a's bytes first and b's after
\* them; a and b are unchanged; with an empty operand the result equals the
\* other operand.
C5_Concatenation ==
    [][ last'.op = "plus" =>
            LET a == Deref(last'.x)
                b == Deref(last'.y)
                r == DerefNext(Temp)
            IN  /\ r.length = a.length + b.length
                /\ \A i \in 1..a.length : r.data[i] = a.data[i]
                /\ \A i \in 1..b.length : r.data[a.length + i] = b.data[i]
                /\ DerefNext(last'.x) = a
                /\ DerefNext(last'.y) = b
                /\ a.length = 0 => operatorEq(r, b) /\ operatorEq(b, r)
                /\ b.length = 0 => operatorEq(r, a) /\ operatorEq(a, r)
      ]_vars

\* two different non-empty operands were concatenated
C5_Witness ==
    /\ last.op = "plus"
    /\ last.x # last.y
    /\ objs[last.x].length >= 1 /\ objs[last.y].length >= 1
    /\ Bytes(Deref(last.x)) # Bytes(Deref(last.y))
    /\ objs[Temp].length = objs[last.x].length + objs[last.y].length

\* C6: after every constructor and operation the byte at index size() is the
\* terminator and no terminator byte occurs at an index below size().
C6_TerminatedAtLength ==
    \A o \in Names :
        live(o) =>
            /\ Len(heap[objs[o].data]) = objs[o].length + 1
            /\ heap[objs[o].data][objs[o].length + 1] = NUL
            /\ ~InnerNul(o)

\* the byte 'A'..'Z' maps to 'a'..'z', every other byte to itself
LowerByte(b) == IF b \in UpperA..UpperZ THEN b + CaseOffset ELSE b

\* C7: toLowerCase returns a value of the same size with every byte 'A'..'Z'
\* replaced by its lowercase byte and every other byte unchanged, leaves the
\* receiver unchanged, and lower(lower(s)) == lower(s).
C7_ToLowerCase ==
    [][ last'.op = "lower" =>
            LET s == Deref(last'.x)
                r == DerefNext(Temp)
            IN  /\ r.length = s.length
                /\ \A i \in 1..s.length : r.data[i] = LowerByte(s.data[i])
                /\ DerefNext(last'.x) = s
                /\ operatorEq(toLowerCase(r), r)
      ]_vars

\* the receiver held an uppercase byte, a lowercase byte or a byte above 127
C7_Witness ==
    /\ last.op = "lower"
    /\ \E i \in 1..objs[last.x].length :
           Deref(last.x).data[i] \in UpperA..UpperZ
    /\ \E i \in 1..objs[last.x].length :
           Deref(last.x).data[i] \notin UpperA..UpperZ
    /\ Bytes(Deref(Temp)) # Bytes(Deref(last.x))

-----------------------------------------------------------------------------
(* The text functions of SentimentClassifier.cpp, over DSString values *)

Space == 32

\* const char* delimiters of tokenizeTweet
delimiters ==
    <<32, 44, 46, 33, 63, 59, 58, 34, 39, 40, 41, 91, 93, 123, 125, 64, 35,
      36, 37, 94, 38, 42, 45, 95, 61, 43, 60, 62, 47, 92, 124, 126, 96, NUL>>

\* lines 56-62: the scan of delimiters up to its terminator
isDelimiter(c) == \E j \in 1..stringLength(delimiters) : c = delimiters[j]

\* lines 73-74 and 121-122: current + DSString(temp) with temp = {c, '\0'},
\* assigned back to current
appendChar(current, c) ==
    DSStringCopy(operatorPlus(current, DSStringFromC(<<c, NUL>>)))

tokenizeFinishDropsWord(tokens, currentWord) == tokens

\* lines 78-83: the last word, when one is open
tokenizeFinish(tokens, currentWord) ==
    IF currentWord.length > 0
    THEN Append(tokens, DSStringCopy(currentWord))
    ELSE tokens

\* lines 53-75: one pass of the loop, for the character c
tokenizeStep(st, c) ==
    IF isDelimiter(c)
    THEN IF st.currentWord.length > 0
         THEN [tokens |-> Append(st.tokens, DSStringCopy(st.currentWord)),
               currentWord |-> DSStringCopy(DSStringDefault)]
         ELSE st
    ELSE [st EXCEPT !.currentWord = appendChar(@, c)]

\* lines 52-76: the loop states after each of the passes i = lo..hi - 1, the
\* loop being in state st before pass lo (the range is halved so that the
\* evaluation stays shallow; the passes run in the order of the loop)
RECURSIVE tokenizeLoop(_, _, _, _)
tokenizeLoop(lowerText, st, lo, hi) ==
    IF lo + 1 = hi THEN <<tokenizeStep(st, lowerText.data[lo + 1])>>
    ELSE LET mid == (lo + hi) \div 2
             upToMid == tokenizeLoop(lowerText, st, lo, mid)
         IN  upToMid \o tokenizeLoop(lowerText, upToMid[Len(upToMid)], mid, hi)

tokenizeTweet(tweetText) ==
    LET lowerText == toLowerCase(tweetText)
        start == [tokens |-> << >>, currentWord |-> DSStringDefault]
        states == IF lowerText.length = 0 THEN <<start>>
                  ELSE tokenizeLoop(lowerText, start, 0, lowerText.length)
        st == states[Len(states)]
    IN  tokenizeFinish(st.tokens, st.currentWord)

parseFinishSkipsEmpty(fields, currentField) ==
    IF currentField.length > 0
    THEN Append(fields, DSStringCopy(currentField))
    ELSE fields

\* lines 126-129: the last field
parseFinish(fields, currentField) == Append(fields, DSStringCopy(currentField))

\* lines 106-123: one pass of the loop, for the character c
parseStep(st, c) ==
    IF c = Quote THEN [st EXCEPT !.inQuotes = ~@]
    ELSE IF c = Comma /\ ~st.inQuotes
    THEN [fields |-> Append(st.fields, DSStringCopy(st.currentField)),
          currentField |-> DSStringCopy(DSStringDefault),
          inQuotes |-> st.inQuotes]
    ELSE [st EXCEPT !.currentField = appendChar(@, c)]

\* lines 105-124: the loop states after each of the passes i = lo..hi - 1, the
\* loop being in state st before pass lo (the range is halved so that the
\* evaluation stays shallow; the passes run in the order of the loop)
RECURSIVE parseLoop(_, _, _, _)
parseLoop(line, st, lo, hi) ==
    IF lo + 1 = hi THEN <<parseStep(st, line.data[lo + 1])>>
    ELSE LET mid == (lo + hi) \div 2
             upToMid == parseLoop(line, st, lo, mid)
         IN  upToMid \o parseLoop(line, upToMid[Len(upToMid)], mid, hi)

parseCSVLine(line, hasSentiment) ==
    LET start == [fields |-> << >>, currentField |-> DSStringDefault,
                  inQuotes |-> FALSE]
        states == IF line.length = 0 THEN <<start>>
                  ELSE parseLoop(line, start, 0, line.length)
        st == states[Len(states)]
    IN  parseFinish(st.fields, st.currentField)

\* the example lines of the specification
ExampleCsvLine ==
    <<34, 52, 34, 44, 34, 49, 52, 54, 56, 34, 44, 34, 77, 111, 110, 34, 44,
      34, 113, 34, 44, 34, 117, 115, 101, 114, 34, 44, 34, 73, 32, 108, 111,
      118, 101, 32, 105, 116, 34>>
ExampleCsvFields ==
    << <<52>>, <<49, 52, 54, 56>>, <<77, 111, 110>>, <<113>>,
       <<117, 115, 101, 114>>, <<73, 32, 108, 111, 118, 101, 32, 105, 116>> >>
ExampleTweet ==
    <<72, 101, 108, 108, 111, 44, 32, 87, 111, 114, 108, 100, 33, 33>>
ExampleTokens == << <<104, 101, 108, 108, 111>>, <<119, 111, 114, 108, 100>> >>

\* the bytes of the raw lines std::getline hands over
TextBytes == {NUL, Comma, Quote, Space, UpperA + 1, UpperA + CaseOffset, 200}
RawLines == SeqsUpTo(TextBytes, MaxLine) \cup {ExampleCsvLine, ExampleTweet}

\* DSString dsLine(line.c_str())
LineString(raw) == DSStringFromC(raw \o <<NUL>>)

InitText ==
    /\ charSigned \in BOOLEAN
    /\ stage = "line"
    /\ input \in {LineString(raw) : raw \in RawLines}
    /\ output = << >>
    /\ IdleString /\ IdleTrain /\ IdleRun

ParseCSVLine(hasSentiment) ==
    /\ stage = "line"
    /\ output' = parseCSVLine(input, hasSentiment)
    /\ stage' = "parsed"
    /\ UNCHANGED <<charSigned, input, strVars, trainVars, runVars>>

TokenizeTweet ==
    /\ stage = "line"
    /\ output' = tokenizeTweet(input)
    /\ stage' = "tokenized"
    /\ UNCHANGED <<charSigned, input, strVars, trainVars, runVars>>

NextText ==
    \/ \E hasSentiment \in BOOLEAN : ParseCSVLine(hasSentiment)
    \/ TokenizeTweet

SpecText == InitText /\ [][NextText]_vars

-----------------------------------------------------------------------------
(* Properties of the text functions *)

\* the bytes of each DSString of a vector
BytesOf(v) == [k \in 1..Len(v) |-> Bytes(v[k])]

\* position k of bytes lies in a quoted region: an odd number of quotes before it
InQuoted(bytes, k) ==
    Cardinality({p \in 1..(k - 1) : bytes[p] = Quote}) % 2 = 1

\* the positions of the commas outside quoted regions
Separators(bytes) ==
    {k \in 1..Len(bytes) : bytes[k] = Comma /\ ~InQuoted(bytes, k)}

\* field j: the bytes other than quotes between separator j - 1 and separator j
FieldBytes(bytes, j) ==
    LET seps == Separators(bytes)
        Keep(k) == /\ bytes[k] # Quote
                   /\ k \notin seps
                   /\ Cardinality({p \in seps : p < k}) = j - 1
        at == SelectSeq([k \in 1..Len(bytes) |-> k], Keep)
    IN  [n \in 1..Len(at) |-> bytes[at[n]]]

\* C8: parseCSVLine returns (commas outside quoted regions) + 1 fields in
\* column order; each quote toggles the quoted region and is dropped, commas
\* inside a quoted region stay in the field, every other byte is appended,
\* the last field is emitted even when empty; the six quoted fields of the
\* example line come out with their quotes stripped.
C8_ParseCSVLine ==
    stage = "parsed" =>
        LET bytes == Bytes(input)
        IN  /\ Len(output) = Cardinality(Separators(bytes)) + 1
            /\ \A j \in 1..Len(output) :
                   /\ Bytes(output[j]) = FieldBytes(bytes, j)
                   /\ output[j].data = Bytes(output[j]) \o <<NUL>>
            /\ bytes = << >> => BytesOf(output) = << << >> >>
            /\ bytes = ExampleCsvLine => BytesOf(output) = ExampleCsvFields

\* a line with a comma inside a quoted region, a comma outside and an empty
\* last field
C8_Witness ==
    /\ stage = "parsed"
    /\ \E k \in 1..input.length :
           input.data[k] = Comma /\ InQuoted(Bytes(input), k)
    /\ Separators(Bytes(input)) # {}
    /\ output[Len(output)].length = 0

\* the delimiter bytes: space and , . ! ? ; : " ' ( ) [ ] { } @ # $ % ^ & * -
\* _ = + < > / \ | ~ `
DelimiterSet == (32..47) \cup (58..64) \cup (91..96) \cup (123..126)

LowerBytes(bytes) == [k \in 1..Len(bytes) |-> LowerByte(bytes[k])]

\* where the maximal runs of non-delimiter bytes start
RunStarts(bytes) ==
    {k \in 1..Len(bytes) :
        /\ bytes[k] \notin DelimiterSet
        /\ k = 1 \/ bytes[k - 1] \in DelimiterSet}

\* the last position of the run that starts at k
RunEnd(bytes, k) ==
    CHOOSE e \in k..Len(bytes) :
        /\ \A p \in k..e : bytes[p] \notin DelimiterSet
        /\ e = Len(bytes) \/ bytes[e + 1] \in DelimiterSet

\* the maximal runs of non-delimiter bytes, in input order
Runs(bytes) ==
    LET starts == RunStarts(bytes)
        Nth(n) == CHOOSE k \in starts : Cardinality({p \in starts : p < k}) = n - 1
    IN  [n \in 1..Cardinality(starts) |-> SubSeq(bytes, Nth(n), RunEnd(bytes, Nth(n)))]

\* C9: tokenizeTweet returns, in input order, exactly the maximal runs of
\* non-delimiter bytes of the lowercased field: no token is empty or holds a
\* delimiter or a byte 'A'..'Z', a run ended by the end of input is the last
\* token, a field of delimiters only (or empty) yields no token, and
\* "Hello, World!!" yields "hello", "world".
C9_TokenizeTweet ==
    stage = "tokenized" =>
        LET bytes == Bytes(input)
        IN  /\ BytesOf(output) = Runs(LowerBytes(bytes))
            /\ \A n \in 1..Len(output) :
                   /\ output[n].length > 0
                   /\ output[n].data = Bytes(output[n]) \o <<NUL>>
                   /\ \A k \in 1..output[n].length :
                          /\ output[n].data[k] \notin DelimiterSet
                          /\ output[n].data[k] \notin UpperA..UpperZ
            /\ (\A k \in 1..Len(bytes) : bytes[k] \in DelimiterSet) => output = << >>
            /\ (bytes # << >> /\ bytes[Len(bytes)] \notin DelimiterSet) =>
                   /\ output # << >>
                   /\ output[Len(output)].data[output[Len(output)].length]
                          = LowerByte(bytes[Len(bytes)])
            /\ bytes = ExampleTweet => BytesOf(output) = ExampleTokens

\* two tokens, the first with an uppercase byte in the input, the last ended
\* by the end of input
C9_Witness ==
    /\ stage = "tokenized"
    /\ Len(output) = 2
    /\ \E k \in 1..input.length : input.data[k] \in UpperA..UpperZ
    /\ input.data[input.length] \notin DelimiterSet

-----------------------------------------------------------------------------
(* SentimentClassifier::train, one std::getline per step *)

\* std::map::find under operator<: the entries whose key is equivalent to k
mapFind(counts, k) ==
    {e \in counts : ~operatorLt(e.key, k) /\ ~operatorLt(k, e.key)}

\* lines 216-224: counts = wordSentimentCounts[token], then one increment
updateCounts(counts, token, sentiment) ==
    LET found == mapFind(counts, token)
        entry == IF found = {}
                 THEN [key |-> DSStringCopy(token), first |-> 0, second |-> 0]
                 ELSE CHOOSE e \in found : TRUE
        bumped == IF sentiment = 4
                  THEN [entry EXCEPT !.first = @ + 1]
                  ELSE [entry EXCEPT !.second = @ + 1]
    IN  (counts \ found) \cup {bumped}

sentimentOfNonEmpty(sentimentStr) == IF sentimentStr.length > 0 THEN 4 ELSE 0

\* lines 198-204 and 367: 4 when the field starts with '4', else 0
sentimentOf(sentimentStr) == IF sentimentStr.data[1] = Four THEN 4 ELSE 0

isShortTokenOffByOne(token) == token.length < 1

\* line 212: the words too short to count
isShortToken(token) == token.length <= 1

\* lines 210-225: the loop over the tokens from the k-th on
RECURSIVE trainTokens(_, _, _, _)
trainTokens(counts, tokens, k, sentiment) ==
    IF k > Len(tokens) THEN counts
    ELSE IF isShortToken(tokens[k])
    THEN trainTokens(counts, tokens, k + 1, sentiment)
    ELSE trainTokens(updateCounts(counts, tokens[k], sentiment), tokens,
                     k + 1, sentiment)

\* the lines of the training file
RECURSIVE JoinFields(_)
JoinFields(fs) ==
    IF Len(fs) = 1 THEN fs[1]
    ELSE fs[1] \o <<Comma>> \o JoinFields(Tail(fs))
TrainLabels == {<<Four>>, <<48>>, << >>}
TrainTexts == {<<97, 98, 32, 97, 98>>, <<65, 66, 32, 99>>, <<99>>}
TrainLines ==
    {JoinFields(<<l, <<105>>, << >>, << >>, << >>, t>>) :
         l \in TrainLabels, t \in TrainTexts}
    \cup {JoinFields(<<l, t>>) : l \in TrainLabels, t \in TrainTexts}

InitTrain ==
    /\ charSigned \in BOOLEAN
    /\ stage = "train"
    /\ IdleString /\ IdleText /\ IdleTrain /\ IdleRun

\* lines 164-172: the file is opened, or train returns false
TrainOpen(opened) ==
    /\ stage = "train" /\ trainPc = "closed"
    /\ trainPc' = IF opened THEN "reading" ELSE "failed"
    /\ isFirstLine' = TRUE
    /\ UNCHANGED <<charSigned, strVars, textVars, wordSentimentCounts,
                   totalPositiveTweets, totalNegativeTweets, processed, runVars>>

\* lines 174-226: one pass of the loop, std::getline having read raw
TrainLine(raw) ==
    /\ stage = "train" /\ trainPc = "reading"
    /\ LET dsLine == LineString(raw)
           fields == parseCSVLine(dsLine, TRUE)
       IN  IF isFirstLine
           THEN /\ isFirstLine' = FALSE
                /\ UNCHANGED <<wordSentimentCounts, totalPositiveTweets,
                               totalNegativeTweets, processed, skipped>>
           ELSE IF Len(fields) < 6
           THEN /\ skipped' = "train"
                /\ UNCHANGED <<isFirstLine, wordSentimentCounts,
                               totalPositiveTweets, totalNegativeTweets,
                               processed>>
           ELSE LET sentimentStr == fields[1]
                    tweetText == fields[6]
                    sentiment == sentimentOf(sentimentStr)
                    tokens == tokenizeTweet(tweetText)
                IN  /\ Len(processed) < MaxRecords
                    /\ totalPositiveTweets' =
                           totalPositiveTweets + (IF sentiment = 4 THEN 1 ELSE 0)
                    /\ totalNegativeTweets' =
                           totalNegativeTweets + (IF sentiment = 4 THEN 0 ELSE 1)
                    /\ wordSentimentCounts' =
                           trainTokens(wordSentimentCounts, tokens, 1, sentiment)
                    /\ processed' = Append(processed,
                           [label |-> Bytes(sentimentStr), text |-> Bytes(tweetText)])
                    /\ UNCHANGED <<isFirstLine, skipped>>
    /\ UNCHANGED <<charSigned, strVars, textVars, trainPc, predictVars,
                   evalVars, exitStatus>>

\* lines 228-237: std::getline fails at the end of the file; train returns true
TrainEnd ==
    /\ stage = "train" /\ trainPc = "reading"
    /\ trainPc' = "done"
    /\ UNCHANGED <<charSigned, strVars, textVars, isFirstLine,
                   wordSentimentCounts, totalPositiveTweets,
                   totalNegativeTweets, processed, runVars>>

NextTrain ==
    \/ \E opened \in BOOLEAN : TrainOpen(opened)
    \/ \E raw \in TrainLines : TrainLine(raw)
    \/ TrainEnd

SpecTrain == InitTrain /\ [][NextTrain]_vars

-----------------------------------------------------------------------------
(* Properties of training *)

\* the tokens of a processed record: the runs of its lowercased text
RecordTokens(r) == Runs(LowerBytes(r.text))

\* a record is labelled POSITIVE when its label field starts with '4'
IsPositive(r) == r.label # << >> /\ r.label[1] = Four

\* how often w is a token of the first k processed records with that label
RECURSIVE Occurrences(_, _, _)
Occurrences(w, positive, k) ==
    IF k = 0 THEN 0
    ELSE Occurrences(w, positive, k - 1)
         + (IF IsPositive(processed[k]) = positive
            THEN Cardinality({n \in 1..Len(RecordTokens(processed[k])) :
                                 RecordTokens(processed[k])[n] = w})
            ELSE 0)

\* every token of the processed records
ProcessedTokens ==
    UNION {{RecordTokens(processed[k])[n] : n \in 1..Len(RecordTokens(processed[k]))} :
               k \in 1..Len(processed)}

\* C10: WordStats has a key w exactly when w is a token of length >= 2 of a
\* processed training record; its positiveCount is the number of occurrences
\* of w in the records labelled POSITIVE and its negativeCount the number in
\* those labelled NEGATIVE; tokens of length 1 have no entry; both counts are
\* non-negative.
C10_WordStats ==
    /\ {Bytes(e.key) : e \in wordSentimentCounts}
           = {w \in ProcessedTokens : Len(w) >= 2}
    /\ \A e \in wordSentimentCounts :
           /\ e.first = Occurrences(Bytes(e.key), TRUE, Len(processed))
           /\ e.second = Occurrences(Bytes(e.key), FALSE, Len(processed))
           /\ e.first >= 0 /\ e.second >= 0
    /\ \A e1 \in wordSentimentCounts, e2 \in wordSentimentCounts :
           Bytes(e1.key) = Bytes(e2.key) => e1 = e2

\* training ended with a word counted under both labels, twice under one of
\* them, and a one-byte token left out
C10_Witness ==
    /\ trainPc = "done"
    /\ \E e \in wordSentimentCounts :
           e.first >= 1 /\ e.second >= 1 /\ e.first + e.second >= 3
    /\ \E w \in ProcessedTokens : Len(w) = 1

-----------------------------------------------------------------------------
(* SentimentClassifier::predict and ::evaluatePredictions, one std::getline  *)
(* per step, and main, which runs the three stages                          *)

\* the most records predict() reads after the header
MaxTests == 2
\* the most records evaluatePredictions() reads after the header
MaxTruths == 2

Zero == 48
Dot == 46

\* operator<< of an int of one decimal digit
decimal(n) == <<Zero + n>>

scoreStepCountsAbsent(score, token) ==
    LET it == mapFind(wordSentimentCounts, token)
    IN  IF it # {}
        THEN LET e == CHOOSE e \in it : TRUE
             IN  score + (e.first - e.second)
        ELSE score + 1

\* lines 145-150: one pass of the loop of calculateSentimentScore
scoreStep(score, token) ==
    LET it == mapFind(wordSentimentCounts, token)
    IN  IF it # {}
        THEN LET e == CHOOSE e \in it : TRUE
             IN  score + (e.first - e.second)
        ELSE score

\* lines 143-151: the loop over the tokens from the k-th on
RECURSIVE scoreFrom(_, _, _)
scoreFrom(tokens, k, score) ==
    IF k > Len(tokens) THEN score
    ELSE scoreFrom(tokens, k + 1, scoreStep(score, tokens[k]))

calculateSentimentScore(tokens) == scoreFrom(tokens, 1, 0)

predictedOfNonNegative(score) == IF score >= 0 THEN 4 ELSE 0

\* line 296
predictedOf(score) == IF score > 0 THEN 4 ELSE 0

mapAssignKeepsFirst(map, k, v) ==
    LET found == mapFind(map, k)
    IN  IF found = {} THEN map \cup {[key |-> DSStringCopy(k), value |-> v]}
        ELSE map

\* line 299: map[k] = v of std::map
mapAssign(map, k, v) ==
    LET found == mapFind(map, k)
        key == IF found = {} THEN DSStringCopy(k)
               ELSE (CHOOSE e \in found : TRUE).key
    IN  (map \ found) \cup {[key |-> key, value |-> v]}

stageSucceededOrFailed(pc) == pc \in {"done", "failed"}

\* main, lines 59, 66 and 73: the stage returned true
stageSucceeded(pc) == pc = "done"

\* line 281
tooFewTestFields(fields) == Len(fields) < 5

\* line 361
tooFewTruthFields(fields) == Len(fields) < 2

idOfLabelColumn(fields) == fields[1]

\* line 366: the id is in the second column
truthId(fields) == fields[2]

\* lines 388-396: the accuracy in thousandths, as std::fixed with
\* std::setprecision(3) rounds it (no quotient of fewer than 16 predictions
\* lies half way between two thousandths)
accuracyThousandths(correct, total) ==
    IF total > 0 THEN (2000 * correct + total) \div (2 * total) ELSE 0

accuracyLineTwoPlaces(correct, total) ==
    LET t == accuracyThousandths(correct, total)
    IN  <<Zero + (t \div 1000), Dot, Zero + ((t \div 100) % 10),
          Zero + ((t \div 10) % 10)>>

\* line 396: the digits written
accuracyLine(correct, total) ==
    LET t == accuracyThousandths(correct, total)
    IN  <<Zero + (t \div 1000), Dot, Zero + ((t \div 100) % 10),
          Zero + ((t \div 10) % 10), Zero + (t % 10)>>

misclassificationLinePredictedLast(mis) ==
    decimal(mis.actual) \o <<Comma>> \o decimal(mis.predicted) \o <<Comma>>
        \o Bytes(mis.tweetID)

\* line 400
misclassificationLine(mis) ==
    decimal(mis.predicted) \o <<Comma>> \o decimal(mis.actual) \o <<Comma>>
        \o Bytes(mis.tweetID)

warnsWhenMatched(total) == total > 0

\* lines 389-393: the warning goes out when nothing was matched
warns(total) == ~(total > 0)

\* lines 249-261: both files are opened, or predict returns false
PredictOpen(inOpened, outOpened) ==
    /\ stage = "train" /\ exitStatus = -1
    /\ stageSucceeded(trainPc) /\ predictPc = "closed"
    /\ predictPc' = IF inOpened /\ outOpened THEN "reading" ELSE "failed"
    /\ isFirstLine' = TRUE
    /\ skipped' = "none"
    /\ UNCHANGED <<charSigned, strVars, textVars, trainPc, wordSentimentCounts,
                   totalPositiveTweets, totalNegativeTweets, processed,
                   predictions, outFile, tested, evalVars, exitStatus>>

PredictSkipWritesLine ==
    /\ skipped' = "predict"
    /\ outFile' = Append(outFile, decimal(0) \o <<Comma>>)
    /\ UNCHANGED <<isFirstLine, predictions, tested>>

\* lines 281-283: continue
PredictSkip ==
    /\ skipped' = "predict"
    /\ UNCHANGED <<isFirstLine, predictions, outFile, tested>>

\* lines 267-303: one pass of the loop, std::getline having read raw
PredictLine(raw) ==
    /\ stage = "train" /\ predictPc = "reading"
    /\ LET dsLine == LineString(raw)
           fields == parseCSVLine(dsLine, FALSE)
       IN  IF isFirstLine
           THEN /\ isFirstLine' = FALSE
                /\ UNCHANGED <<predictions, outFile, tested, skipped>>
           ELSE IF tooFewTestFields(fields)
           THEN PredictSkip
           ELSE LET tweetID == fields[1]
                    tweetText == fields[5]
                    tokens == tokenizeTweet(tweetText)
                    score == calculateSentimentScore(tokens)
                    predictedSentiment == predictedOf(score)
                IN  /\ Len(tested) < MaxTests
                    /\ predictions' =
                           mapAssign(predictions, tweetID, predictedSentiment)
                    /\ outFile' = Append(outFile,
                           decimal(predictedSentiment) \o <<Comma>>
                               \o Bytes(tweetID))
                    /\ tested' = Append(tested,
                           [id |-> Bytes(tweetID), text |-> Bytes(tweetText),
                            score |-> score])
                    /\ UNCHANGED <<isFirstLine, skipped>>
    /\ UNCHANGED <<charSigned, strVars, textVars, trainPc, wordSentimentCounts,
                   totalPositiveTweets, totalNegativeTweets, processed,
                   predictPc, evalVars, exitStatus>>

\* lines 305-310: std::getline fails at the end of the file; predict returns true
PredictEnd ==
    /\ stage = "train" /\ predictPc = "reading"
    /\ predictPc' = "done"
    /\ UNCHANGED <<charSigned, strVars, textVars, trainVars, predictions,
                   outFile, tested, evalVars, skipped, exitStatus>>

\* lines 322-345: both files are opened, or evaluatePredictions returns false
EvalOpen(inOpened, outOpened) ==
    /\ stage = "train" /\ exitStatus = -1
    /\ stageSucceeded(predictPc) /\ evalPc = "closed"
    /\ evalPc' = IF inOpened /\ outOpened THEN "reading" ELSE "failed"
    /\ isFirstLine' = TRUE
    /\ correctPredictions' = 0
    /\ totalPredictions' = 0
    /\ misclassifications' = << >>
    /\ skipped' = "none"
    /\ UNCHANGED <<charSigned, strVars, textVars, trainPc, wordSentimentCounts,
                   totalPositiveTweets, totalNegativeTweets, processed,
                   predictVars, accFile, warned, evaluated, exitStatus>>

\* lines 347-385: one pass of the loop, std::getline having read raw
EvalLine(raw) ==
    /\ stage = "train" /\ evalPc = "reading"
    /\ LET dsLine == LineString(raw)
           fields == parseCSVLine(dsLine, FALSE)
       IN  IF isFirstLine
           THEN /\ isFirstLine' = FALSE
                /\ UNCHANGED <<correctPredictions, totalPredictions,
                               misclassifications, evaluated, skipped>>
           ELSE IF tooFewTruthFields(fields)
           THEN /\ skipped' = "evaluate"
                /\ UNCHANGED <<isFirstLine, correctPredictions,
                               totalPredictions, misclassifications, evaluated>>
           ELSE LET tweetID == truthId(fields)
                    actualSentiment == sentimentOf(fields[1])
                    it == mapFind(predictions, tweetID)
                IN  /\ Len(evaluated) < MaxTruths
                    /\ IF it # {}
                       THEN LET predictedSentiment == (CHOOSE e \in it : TRUE).value
                            IN  /\ totalPredictions' = totalPredictions + 1
                                /\ IF predictedSentiment = actualSentiment
                                   THEN /\ correctPredictions' =
                                               correctPredictions + 1
                                        /\ UNCHANGED misclassifications
                                   ELSE /\ misclassifications' =
                                               Append(misclassifications,
                                                   [predicted |-> predictedSentiment,
                                                    actual |-> actualSentiment,
                                                    tweetID |-> DSStringCopy(tweetID)])
                                        /\ UNCHANGED correctPredictions
                       ELSE UNCHANGED <<correctPredictions, totalPredictions,
                                        misclassifications>>
                    /\ evaluated' = Append(evaluated,
                           [label |-> Bytes(fields[1]), id |-> Bytes(fields[2])])
                    /\ UNCHANGED <<isFirstLine, skipped>>
    /\ UNCHANGED <<charSigned, strVars, textVars, trainPc, wordSentimentCounts,
                   totalPositiveTweets, totalNegativeTweets, processed,
                   predictVars, evalPc, accFile, warned, exitStatus>>

\* lines 387-410: std::getline fails at the end of the file; the accuracy and
\* the misclassifications are written and evaluatePredictions returns true
EvalEnd ==
    /\ stage = "train" /\ evalPc = "reading"
    /\ warned' = warns(totalPredictions)
    /\ accFile' = <<accuracyLine(correctPredictions, totalPredictions)>>
                      \o [n \in 1..Len(misclassifications) |->
                              misclassificationLine(misclassifications[n])]
    /\ evalPc' = "done"
    /\ UNCHANGED <<charSigned, strVars, textVars, trainVars, predictVars,
                   correctPredictions, totalPredictions, misclassifications,
                   evaluated, skipped, exitStatus>>

\* main, lines 59-62, 66-69 and 73-76: a stage returned false
MainFail ==
    /\ stage = "train" /\ exitStatus = -1
    /\ \/ trainPc = "failed"
       \/ stageSucceeded(trainPc) /\ predictPc = "failed"
       \/ stageSucceeded(trainPc) /\ stageSucceeded(predictPc) /\ evalPc = "failed"
    /\ exitStatus' = 1
    /\ UNCHANGED <<charSigned, strVars, textVars, trainVars, predictVars,
                   evalVars, skipped>>

\* main, lines 78-82: the three stages returned true
MainReturn ==
    /\ stage = "train" /\ exitStatus = -1
    /\ stageSucceeded(trainPc) /\ stageSucceeded(predictPc)
    /\ stageSucceeded(evalPc)
    /\ exitStatus' = 0
    /\ UNCHANGED <<charSigned, strVars, textVars, trainVars, predictVars,
                   evalVars, skipped>>

\* the words, ids and lines of the three files
Good == <<103, 111, 111, 100>>
Bad == <<98, 97, 100>>
Id1 == <<105, 100, 49>>
Id2 == <<105, 100, 50>>
Id3 == <<105, 100, 51>>
RunTrainLines ==
    {JoinFields(<<(<<Four>>), Id1, << >>, << >>, << >>, Good \o <<Space>> \o Good>>),
     JoinFields(<<(<<Zero>>), Id2, << >>, << >>, << >>, Bad \o <<Space>> \o Bad>>),
     JoinFields(<<(<< >>), Id3, << >>, << >>, << >>, Good>>),
     JoinFields(<<(<<Four>>), Id1, << >>, << >>, Good>>)}
RunTestLines ==
    {JoinFields(<<Id1, << >>, << >>, << >>, Good>>),
     JoinFields(<<Id2, << >>, << >>, << >>, Bad>>),
     JoinFields(<<Id2, << >>, << >>, << >>, Bad \o <<Space>> \o Good>>),
     JoinFields(<<Id1, << >>, << >>, Good>>)}
RunTruthLines ==
    {JoinFields(<<(<<Four>>), Id1>>),
     JoinFields(<<(<<Zero>>), Id2>>),
     JoinFields(<<(<< >>), Id1>>),
     Id1}

NextRun ==
    \/ \E opened \in BOOLEAN : TrainOpen(opened)
    \/ \E raw \in RunTrainLines : TrainLine(raw)
    \/ TrainEnd
    \/ \E inOpened \in BOOLEAN, outOpened \in BOOLEAN :
           PredictOpen(inOpened, outOpened)
    \/ \E raw \in RunTestLines : PredictLine(raw)
    \/ PredictEnd
    \/ \E inOpened \in BOOLEAN, outOpened \in BOOLEAN :
           EvalOpen(inOpened, outOpened)
    \/ \E raw \in RunTruthLines : EvalLine(raw)
    \/ EvalEnd
    \/ MainFail
    \/ MainReturn

SpecRun == InitTrain /\ [][NextRun]_vars

-----------------------------------------------------------------------------
(* Properties of prediction, evaluation and the driver *)

\* the label predict() wrote for the k-th record it processed
WrittenLabel(k) == outFile[k][1] - Zero

\* where predict() processed a record with that identifier
TestedAt(id) == {k \in 1..Len(tested) : tested[k].id = id}

\* the label written for the last processed test record with that identifier
LastPrediction(id) ==
    WrittenLabel(CHOOSE k \in TestedAt(id) : \A j \in TestedAt(id) : j <= k)

\* the label a raw label field stands for
Actual(r) == IF IsPositive(r) THEN 4 ELSE 0

\* a ground-truth record whose identifier predict() has seen, and how its
\* label compares with the last prediction for it
IsMatched(r) == TestedAt(r.id) # {}
IsCorrect(r) == IsMatched(r) /\ LastPrediction(r.id) = Actual(r)
IsMiss(r) == IsMatched(r) /\ LastPrediction(r.id) # Actual(r)

\* C11: in training and in evaluation a record is POSITIVE exactly when the
\* first byte of its raw label field is '4' and NEGATIVE for every other raw
\* value, the empty field included: the tweet counters of train() count the
\* records that way, and evaluatePredictions() compares and records the
\* label derived that way.
C11_LabelDerivation ==
    /\ totalPositiveTweets =
           Cardinality({k \in 1..Len(processed) : IsPositive(processed[k])})
    /\ totalNegativeTweets =
           Cardinality({k \in 1..Len(processed) : ~IsPositive(processed[k])})
    /\ correctPredictions = Len(SelectSeq(evaluated, IsCorrect))
    /\ LET miss == SelectSeq(evaluated, IsMiss)
       IN  /\ Len(misclassifications) = Len(miss)
           /\ \A n \in 1..Len(miss) :
                  misclassifications[n].actual = Actual(miss[n])

\* training and evaluation have both read a record with an empty label field
\* and one whose label starts with '4'
C11_Witness ==
    /\ evalPc = "done"
    /\ \E k \in 1..Len(processed) : processed[k].label = << >>
    /\ \E k \in 1..Len(processed) : processed[k].label = <<Four>>
    /\ \E k \in 1..Len(evaluated) :
           evaluated[k].label = << >> /\ IsMatched(evaluated[k])
    /\ \E k \in 1..Len(evaluated) :
           evaluated[k].label = <<Four>> /\ IsMatched(evaluated[k])

\* positiveCount - negativeCount of the word w, 0 when WordStats has no key w
WordDelta(w) ==
    LET es == {e \in wordSentimentCounts : Bytes(e.key) = w}
    IN  IF es = {} THEN 0
        ELSE LET e == CHOOSE e \in es : TRUE
             IN  e.first - e.second

\* the sum of WordDelta over the first k tokens
RECURSIVE SumDelta(_, _)
SumDelta(ws, k) ==
    IF k = 0 THEN 0 ELSE SumDelta(ws, k - 1) + WordDelta(ws[k])

\* C12: the score of a record is the sum over its token occurrences that are
\* keys of WordStats of positiveCount - negativeCount, absent tokens adding
\* 0, and the predicted label is 4 exactly when the score is above 0.
C12_ScoreAndLabel ==
    \A k \in 1..Len(tested) :
        LET ws == RecordTokens(tested[k])
            sum == SumDelta(ws, Len(ws))
        IN  /\ tested[k].score = sum
            /\ WrittenLabel(k) = (IF sum > 0 THEN 4 ELSE 0)

\* a record scored above 0, and one scored exactly 0 by words that are in
\* WordStats
C12_Witness ==
    /\ \E k \in 1..Len(tested) : tested[k].score > 0 /\ WrittenLabel(k) = 4
    /\ \E k \in 1..Len(tested) :
           /\ tested[k].score = 0 /\ WrittenLabel(k) = 0
           /\ \E n \in 1..Len(RecordTokens(tested[k])) :
                  WordDelta(RecordTokens(tested[k])[n]) # 0

\* C13: with no training record processed (WordStats empty), predict()
\* gives every processed test record the label 0, and reading the records
\* makes no stage fail.
C13_UntrainedAlwaysNegative ==
    (processed = << >> /\ wordSentimentCounts = {}) =>
        /\ \A k \in 1..Len(tested) : tested[k].score = 0 /\ WrittenLabel(k) = 0
        /\ \A e \in predictions : e.value = 0
        /\ tested # << >> => trainPc = "done" /\ predictPc \in {"reading", "done"}

\* predict() ran to its end on two records, one of them with text, after a
\* training that processed no record
C13_Witness ==
    /\ processed = << >> /\ wordSentimentCounts = {}
    /\ predictPc = "done"
    /\ Len(tested) = 2
    /\ \E k \in 1..Len(tested) : RecordTokens(tested[k]) # << >>

\* the ground-truth records evaluatePredictions() found in the PredictionTable
MatchedRecords == SelectSeq(evaluated, IsMatched)

\* C14: every ground-truth record whose identifier is in the PredictionTable
\* adds one to totalPredictions and then either one to correctPredictions or
\* one misclassification record (predicted differs from actual); a record
\* whose identifier is not in the table changes no counter; so
\* correctPredictions + the number of misclassification records =
\* totalPredictions and correctPredictions <= totalPredictions throughout.
C14_EvaluationCounters ==
    /\ totalPredictions = Len(MatchedRecords)
    /\ correctPredictions = Len(SelectSeq(MatchedRecords, IsCorrect))
    /\ Len(misclassifications) = Len(SelectSeq(MatchedRecords, IsMiss))
    /\ \A n \in 1..Len(misclassifications) :
           misclassifications[n].predicted # misclassifications[n].actual
    /\ correctPredictions + Len(misclassifications) = totalPredictions
    /\ correctPredictions <= totalPredictions

\* evaluation has read a record that was predicted wrong and a record whose
\* identifier is not in the table
C14_Witness ==
    /\ evalPc = "reading"
    /\ totalPredictions = 1
    /\ Len(misclassifications) = 1
    /\ Len(evaluated) = 2
    /\ \E k \in 1..Len(evaluated) : ~IsMatched(evaluated[k])

\* the line "0.000"
ZeroAccuracyLine == <<Zero, Dot, Zero, Zero, Zero>>

\* C15: when no ground-truth identifier matches the PredictionTable,
\* evaluatePredictions() divides nothing, writes the accuracy 0.000 and no
\* misclassification line, warns, and returns true.
C15_NothingMatched ==
    (evalPc \in {"reading", "done"} /\ totalPredictions = 0) =>
        /\ accuracyThousandths(correctPredictions, totalPredictions) = 0
        /\ misclassifications = << >>
        /\ evalPc = "done" => accFile = <<ZeroAccuracyLine>> /\ warned

\* evaluation ended after reading records of which none was in the table,
\* predict() having filled the table
C15_Witness ==
    /\ evalPc = "done"
    /\ totalPredictions = 0
    /\ evaluated # << >>
    /\ predictions # {}
    /\ exitStatus = 0

\* the number of fields of a line: one more than its separators
FieldCount(raw) == Cardinality(Separators(raw)) + 1

\* the lines of the three files with fewer fields than their stage requires
ShortTrainLines == {raw \in RunTrainLines : FieldCount(raw) < 6}
ShortTestLines == {raw \in RunTestLines : FieldCount(raw) < 5}
ShortTruthLines == {raw \in RunTruthLines : FieldCount(raw) < 2}

\* C16: a line with fewer than 6 fields in training, 5 in prediction, 2 in
\* evaluation is skipped: in training WordStats and the tweet counters stay
\* as they are, in prediction no PredictionTable entry and no output line is
\* made, in evaluation the counters and the misclassification list stay as
\* they are; the stage fails nothing and goes on reading.
C16_ShortLinesSkipped ==
    [][/\ \A raw \in ShortTrainLines :
              (~isFirstLine /\ TrainLine(raw)) =>
                  /\ UNCHANGED <<wordSentimentCounts, totalPositiveTweets,
                                 totalNegativeTweets, processed>>
                  /\ trainPc' = "reading"
       /\ \A raw \in ShortTestLines :
              (~isFirstLine /\ PredictLine(raw)) =>
                  /\ UNCHANGED <<predictions, outFile, tested>>
                  /\ predictPc' = "reading"
       /\ \A raw \in ShortTruthLines :
              (~isFirstLine /\ EvalLine(raw)) =>
                  /\ UNCHANGED <<correctPredictions, totalPredictions,
                                 misclassifications, evaluated>>
                  /\ evalPc' = "reading"]_vars

\* evaluation skipped a short line and read its two records, after a training
\* and a prediction that processed records as well
C16_Witness ==
    /\ skipped = "evaluate"
    /\ evalPc = "done"
    /\ Len(evaluated) = MaxTruths
    /\ processed # << >>
    /\ tested # << >>

\* the misclassification line of a ground-truth record
MissLine(r) ==
    <<Zero + LastPrediction(r.id), Comma, Zero + Actual(r), Comma>> \o r.id

\* C17: the accuracy output is the accuracy line followed by one line
\* predicted,actual,id per misclassified record, in the order in which
\* evaluatePredictions() read those records, and nothing else.
C17_AccuracyOutput ==
    IF evalPc = "done"
    THEN LET miss == SelectSeq(evaluated, IsMiss)
         IN  /\ Len(accFile) = 1 + Len(miss)
             /\ accFile[1] = accuracyLine(Len(SelectSeq(evaluated, IsCorrect)),
                                          Len(MatchedRecords))
             /\ \A n \in 1..Len(miss) : accFile[n + 1] = MissLine(miss[n])
    ELSE accFile = << >>

\* two records were misclassified, the one of id2 read before the one of id1
C17_Witness ==
    /\ evalPc = "done"
    /\ Len(accFile) = 3
    /\ evaluated[1].id = Id2 /\ evaluated[2].id = Id1
    /\ IsMiss(evaluated[1]) /\ IsMiss(evaluated[2])

\* C18: main runs train, predict, evaluate in that order; a stage that fails
\* to open a file makes the run exit with a status other than 0 and no later
\* stage starts; the status is 0 only after the three stages succeeded;
\* predict and evaluatePredictions fail on their files before reading any
\* record.
C18_StageOrder ==
    /\ predictPc # "closed" => trainPc = "done"
    /\ evalPc # "closed" => predictPc = "done"
    /\ exitStatus = 0 =>
           trainPc = "done" /\ predictPc = "done" /\ evalPc = "done"
    /\ exitStatus \in {-1, 0, 1}
    /\ exitStatus = 1 => "failed" \in {trainPc, predictPc, evalPc}
    /\ trainPc \in {"closed", "failed"} =>
           processed = << >> /\ wordSentimentCounts = {}
    /\ predictPc \in {"closed", "failed"} =>
           tested = << >> /\ outFile = << >> /\ predictions = {}
    /\ evalPc \in {"closed", "failed"} =>
           /\ evaluated = << >> /\ accFile = << >>
           /\ totalPredictions = 0 /\ misclassifications = << >>

\* the run has exited with status 1 after predict failed to open a file,
\* training having processed a record
C18_Witness ==
    /\ exitStatus = 1
    /\ trainPc = "done" /\ processed # << >>
    /\ predictPc = "failed"
    /\ evalPc = "closed"

\* the records of the end-to-end example
ExampleProcessed ==
    <<[label |-> <<Four>>, text |-> Good \o <<Space>> \o Good],
      [label |-> <<Zero>>, text |-> Bad \o <<Space>> \o Bad]>>
ExampleTested == <<[id |-> Id1, text |-> Good], [id |-> Id2, text |-> Bad]>>
ExampleEvaluated ==
    <<[label |-> <<Four>>, id |-> Id1], [label |-> <<Zero>>, id |-> Id2]>>

\* the three stages have read the files of the example to their ends
ExampleRun ==
    /\ processed = ExampleProcessed
    /\ [k \in 1..Len(tested) |-> [id |-> tested[k].id, text |-> tested[k].text]]
           = ExampleTested
    /\ evaluated = ExampleEvaluated
    /\ trainPc = "done" /\ predictPc = "done" /\ evalPc = "done"

\* C19: trained on (4, id1, "good good") and (0, id2, "bad bad"), tested on
\* (id1, "good") and (id2, "bad") and evaluated against (4, id1) and
\* (0, id2), each file with its header line, the run writes the predictions
\* 4,id1 and 0,id2 and the accuracy output is the one line 1.000.
C19_EndToEndExample ==
    ExampleRun =>
        /\ outFile = <<(<<Four, Comma>> \o Id1), (<<Zero, Comma>> \o Id2)>>
        /\ accFile = <<(<<Zero + 1, Dot, Zero, Zero, Zero>>)>>
        /\ exitStatus # 1

\* the run of the example has exited with status 0
C19_Witness == ExampleRun /\ exitStatus = 0

\* the identifiers predict() has processed
TestedIds == {tested[k].id : k \in 1..Len(tested)}

\* C20: the PredictionTable has exactly one entry per distinct identifier
\* predict() processed, with the label predicted for the last record of that
\* identifier, while the predictions output has one line per processed
\* record; evaluatePredictions() compares every ground-truth record with
\* that last prediction.
C20_LastPredictionWins ==
    /\ {Bytes(e.key) : e \in predictions} = TestedIds
    /\ Cardinality(predictions) = Cardinality(TestedIds)
    /\ \A e \in predictions : e.value = LastPrediction(Bytes(e.key))
    /\ Len(outFile) = Len(tested)
    /\ \A k \in 1..Len(tested) :
           outFile[k] = <<Zero + predictedOf(tested[k].score), Comma>>
                            \o tested[k].id
    /\ Len(outFile) >= Cardinality(predictions)
    /\ Cardinality(TestedIds) < Len(tested) =>
           Len(outFile) > Cardinality(predictions)
    /\ LET miss == SelectSeq(evaluated, IsMiss)
       IN  /\ Len(misclassifications) = Len(miss)
           /\ \A n \in 1..Len(miss) :
                  /\ misclassifications[n].predicted = LastPrediction(miss[n].id)
                  /\ Bytes(misclassifications[n].tweetID) = miss[n].id
    /\ totalPredictions - Len(misclassifications)
           = Len(SelectSeq(evaluated, IsCorrect))

\* predict() gave two records of one identifier different labels, and
\* evaluation found a record of that identifier right by the last of them
C20_Witness ==
    /\ Len(tested) = 2
    /\ tested[1].id = tested[2].id
    /\ WrittenLabel(1) # WrittenLabel(2)
    /\ Cardinality(predictions) = 1
    /\ Len(outFile) = 2
    /\ \E k \in 1..Len(evaluated) :
           /\ IsCorrect(evaluated[k])
           /\ Actual(evaluated[k]) = WrittenLabel(2)

====
